---- MODULE Spec2Model ----
(***************************************************************************)
(* Model of the pantheon revenue-share contracts.  Three contract variants *)
(* share the same share-ledger and admin-gate code:                        *)
(*   "splitter"  contracts/splitter/src/contract.rs  (reply-tracked child  *)
(*               deployment, withdraw and distribute implemented)          *)
(*   "factory"   contracts/factory/src/contract.rs   (deterministic-       *)
(*               address child deployment, distribute unimplemented)       *)
(*   "base"      src/contract.rs                     (no child deployment) *)
(* A handler is an operator from the storage it is given to a result       *)
(* record [res, config, shares, msgs]: the error (or "Ok"), the storage as *)
(* the handler left it, and the messages of its Response.  The host ledger *)
(* runs one request at a time and keeps the handler's writes only when the *)
(* handler returned Ok.                                                    *)
(***************************************************************************)
EXTENDS Integers, Sequences, FiniteSets, TLC

\* ---------------------------------------------------------------- bounds
NumAddr == 2        \* valid addresses are 1..NumAddr, ordered as their keys
MaxLen == 2         \* longest share list submitted
Scale == 4          \* atomics of Decimal::one() (10^18 in cosmwasm_std)
MaxBalance == 5     \* largest native balance the querier reports
MaxPayload == 1     \* child init payloads are 0..MaxPayload, 0 the empty one
MaxCodeId == 2      \* code ids are 1..MaxCodeId
MaxFunds == 1       \* funds attached to a request are 0..MaxFunds
PageKeys == 11      \* recipients of the share sets that are paged through
MaxLimit == 3       \* largest page limit a query supplies
MaxPending == 2     \* instantiations dispatched and not yet replied to

\* ------------------------------------------------------- program constants
INSTANTIATE_REPLY_ID == 1

\* limit.unwrap_or(10)
DefaultLimit == 10

\* ----------------------------------------------------------------- inputs
Variants == {"splitter", "factory", "base"}

\* Addresses the host can hand in as a sender: always valid ones.
Addrs == 1..NumAddr

\* Recipient strings of a submitted share: 0 is a string that fails
\* validation, the others validate to the address of the same number.
RecipientInputs == 0..NumAddr

\* env.contract.address: the contract's own address, no user's address.
ContractAddr == NumAddr + 1

\* Percentages a submitted share can carry, in Decimal atomics: zero, a half
\* (rounded down) and exactly one.  Two of them can sum to less than one, to
\* exactly one and to more than one.
Percentages == {0, Scale \div 2, Scale}

ShareInputs == [recipient : RecipientInputs, percentage : Percentages]

ShareLists == UNION {[1..n -> ShareInputs] : n \in 0..MaxLen}

Payloads == 0..MaxPayload

CodeIds == 1..MaxCodeId

Funds == 0..MaxFunds

ReplyIds == {INSTANTIATE_REPLY_ID, INSTANTIATE_REPLY_ID + 1}

\* Addresses the host gives to instantiated children.
ChildAddrs == (NumAddr + 2)..(NumAddr + 3)

\* Option<String> of an address: 0 is None.
OptionalAddrs == 0..NumAddr

\* What a Reply carries: the child's address, or the sub-call's error.
ReplyResults ==
    [ok : {TRUE}, contract_address : ChildAddrs]
        \cup {[ok |-> FALSE, contract_address |-> 0]}

\* ------------------------------------------------------------------ state
VARIABLES
    variant,        \* which contract this instance runs
    instantiated,   \* the instance exists (instantiate returned Ok)
    config,         \* CONFIG: [admin, mutable]
    shares,         \* SHARES: a map from validated recipient to Share
    last,           \* the last request: [op, sender, args, res, msgs]
    prev,           \* what was stored when the last request arrived
    pending         \* per reply id: instantiations dispatched, not yet replied

vars == <<variant, instantiated, config, shares, last, prev, pending>>

\* ---------------------------------------------------------- collaborators
\* deps.api.addr_validate: Ok(Addr) of the same string, or an StdError.
addr_validate(s) == s > 0

\* Decimal::one()
DecimalOne == Scale

\* Uint128 * Decimal: multiply_ratio(atomics, DECIMAL_FRACTIONAL), rounded down.
MulDecimal(amount, percentage) == (amount * percentage) \div Scale

\* Map::save(key, value)
MapSave(m, k, v) == [x \in (DOMAIN m) \cup {k} |-> IF x = k THEN v ELSE m[x]]

EmptyMap == [x \in {} |-> 0]

\* Mutant: the range is read with Order::Descending.
RECURSIVE RangeDescending(_)
RangeDescending(keys) ==
    IF keys = {} THEN <<>>
    ELSE LET k == CHOOSE x \in keys : \A y \in keys : x >= y
         IN <<k>> \o RangeDescending(keys \ {k})

\* Map::range(None, None, Order::Ascending): the keys in ascending order.
RECURSIVE RangeAscending(_)
RangeAscending(keys) ==
    IF keys = {} THEN <<>>
    ELSE LET k == CHOOSE x \in keys : \A y \in keys : x <= y
         IN <<k>> \o RangeAscending(keys \ {k})

\* ---------------------------------------------------------- share ledger
\* shares.iter().fold(Decimal::zero(), |acc, share| acc + share.percentage)
RECURSIVE total_percentage(_)
total_percentage(L) ==
    IF Len(L) = 0 THEN 0
    ELSE total_percentage(SubSeq(L, 1, Len(L) - 1)) + L[Len(L)].percentage

\* Mutant: the check for a total below one is missing.
check_share_percentages_NoLowerLimit(L) ==
    IF total_percentage(L) > DecimalOne THEN "PercentageLimitExceeded"
    ELSE "Ok"

\* Mutant: a list with no share passes the sum check.
check_share_percentages_AllowEmpty(L) ==
    IF L = <<>> THEN "Ok"
    ELSE IF total_percentage(L) > DecimalOne THEN "PercentageLimitExceeded"
    ELSE IF total_percentage(L) < DecimalOne THEN "PercentageLimitNotMet"
    ELSE "Ok"

check_share_percentages(L) ==
    IF total_percentage(L) > DecimalOne THEN "PercentageLimitExceeded"
    ELSE IF total_percentage(L) < DecimalOne THEN "PercentageLimitNotMet"
    ELSE "Ok"

\* The loop `for share in shares { addr_validate(..)?; SHARES.save(..)?; }`
\* from entry i on: the map as the loop leaves it, and Ok or the StdError
\* that `?` turns into ContractError::Std.
RECURSIVE save_shares(_, _, _)
save_shares(m, L, i) ==
    IF i > Len(L) THEN [res |-> "Ok", shares |-> m]
    ELSE IF ~addr_validate(L[i].recipient) THEN [res |-> "Std", shares |-> m]
    ELSE save_shares(MapSave(m, L[i].recipient, L[i]), L, i + 1)

Result(res, cfg, sh, msgs) ==
    [res |-> res, config |-> cfg, shares |-> sh, msgs |-> msgs]

\* ArchwayMsg::UpdateContractMetadata of the factory's instantiate
MetadataMsg(contract, owner, rewards) ==
    [kind |-> "UpdateContractMetadata", contract |-> contract,
     owner |-> owner, rewards |-> rewards]

instantiate(v, cfg, sh, sender, mutable, L) ==
    LET newcfg == [admin |-> sender, mutable |-> mutable]
        chk == check_share_percentages(L)
        saved == save_shares(sh, L, 1)
    IN  IF chk # "Ok" THEN Result(chk, newcfg, sh, <<>>)
        ELSE IF saved.res # "Ok" THEN Result(saved.res, newcfg, saved.shares, <<>>)
        ELSE Result("Ok", newcfg, saved.shares,
                    IF v = "factory"
                    THEN <<MetadataMsg(ContractAddr, sender, sender)>>
                    ELSE <<>>)

\* Mutant: the sender is not compared with the admin.
execute_update_shares_NoAdminCheck(cfg, sh, sender, L) ==
    LET chk == check_share_percentages(L)
        saved == save_shares(EmptyMap, L, 1)
    IN  IF cfg.mutable = FALSE THEN Result("ContractNotMutable", cfg, sh, <<>>)
        ELSE IF chk # "Ok" THEN Result(chk, cfg, sh, <<>>)
        ELSE Result(saved.res, cfg, saved.shares, <<>>)

\* Mutant: the admin check comes before the mutable check.
execute_update_shares_AdminFirst(cfg, sh, sender, L) ==
    LET chk == check_share_percentages(L)
        saved == save_shares(EmptyMap, L, 1)
    IN  IF sender # cfg.admin THEN Result("Unauthorized", cfg, sh, <<>>)
        ELSE IF cfg.mutable = FALSE THEN Result("ContractNotMutable", cfg, sh, <<>>)
        ELSE IF chk # "Ok" THEN Result(chk, cfg, sh, <<>>)
        ELSE Result(saved.res, cfg, saved.shares, <<>>)

execute_update_shares(cfg, sh, sender, L) ==
    LET chk == check_share_percentages(L)
        saved == save_shares(EmptyMap, L, 1)
    IN  IF cfg.mutable = FALSE THEN Result("ContractNotMutable", cfg, sh, <<>>)
        ELSE IF sender # cfg.admin THEN Result("Unauthorized", cfg, sh, <<>>)
        ELSE IF chk # "Ok" THEN Result(chk, cfg, sh, <<>>)
        ELSE Result(saved.res, cfg, saved.shares, <<>>)

\* ------------------------------------------------------------ admin gate
\* Mutant: the flag is flipped instead of cleared.
execute_lock_contract_Toggle(cfg, sh, sender) ==
    IF sender # cfg.admin THEN Result("Unauthorized", cfg, sh, <<>>)
    ELSE Result("Ok", [cfg EXCEPT !.mutable = ~cfg.mutable], sh, <<>>)

\* Mutant: locking is gated by the mutable check, as the other handlers are.
execute_lock_contract_RejectLocked(cfg, sh, sender) ==
    IF cfg.mutable = FALSE THEN Result("ContractNotMutable", cfg, sh, <<>>)
    ELSE IF sender # cfg.admin THEN Result("Unauthorized", cfg, sh, <<>>)
    ELSE Result("Ok", [cfg EXCEPT !.mutable = FALSE], sh, <<>>)

execute_lock_contract(cfg, sh, sender) ==
    IF sender # cfg.admin THEN Result("Unauthorized", cfg, sh, <<>>)
    ELSE Result("Ok", [cfg EXCEPT !.mutable = FALSE], sh, <<>>)

\* ------------------------------------------------- child contract deployer
\* cosmwasm_std::instantiate2_address(checksum, creator, salt): an error for
\* an empty salt, otherwise an address that names its three inputs.
instantiate2_address(checksum, creator, salt) ==
    IF salt = 0 THEN [ok |-> FALSE, address |-> <<>>]
    ELSE [ok |-> TRUE, address |-> <<checksum, creator, salt>>]

\* query_wasm_code_info(code_id).checksum: one checksum per stored code.
checksum_of(code_id) == code_id

\* query_wasm_contract_info(env.contract.address).code_id
OwnCodeId == MaxCodeId

\* The address at which the host creates the child of an Instantiate2
\* message m sent by creator: derived from the checksum of the code that m
\* instantiates, the creator and the salt of m.
HostChildAddress(creator, m) ==
    instantiate2_address(checksum_of(m.code_id), creator, m.salt).address

InstantiateSubMsg(admin, code_id, msg, funds, id) ==
    [kind |-> "Instantiate", admin |-> admin, code_id |-> code_id, msg |-> msg,
     funds |-> funds, label |-> "Pantheon Custom Contract",
     reply_on |-> "Success", id |-> id]

Instantiate2Msg(admin, code_id, msg, funds, salt) ==
    [kind |-> "Instantiate2", admin |-> admin, code_id |-> code_id, msg |-> msg,
     funds |-> funds, label |-> "", salt |-> salt]

UpdateRewardMetadataMsg(contract_addr, owner, rewards) ==
    [kind |-> "Execute", contract_addr |-> contract_addr,
     msg |-> [owner_address |-> owner, rewards_address |-> rewards], funds |-> 0]

UpdateAdminMsg(contract_addr, admin) ==
    [kind |-> "UpdateAdmin", contract_addr |-> contract_addr, admin |-> admin]

add_custom_contract_splitter(cfg, sh, sender, code_id, msg, funds) ==
    IF cfg.mutable = FALSE THEN Result("ContractNotMutable", cfg, sh, <<>>)
    ELSE IF sender # cfg.admin THEN Result("Unauthorized", cfg, sh, <<>>)
    ELSE Result("Ok", cfg, sh,
                <<InstantiateSubMsg(ContractAddr, code_id, msg, funds,
                                    INSTANTIATE_REPLY_ID)>>)

\* Mutant: the admin of the child is handed over before its metadata is set.
add_custom_contract_factory_AdminFirst(cfg, sh, sender, code_id, msg, funds) ==
    LET derived == instantiate2_address(checksum_of(OwnCodeId), ContractAddr, msg)
    IN  IF cfg.mutable = FALSE THEN Result("ContractNotMutable", cfg, sh, <<>>)
        ELSE IF sender # cfg.admin THEN Result("Unauthorized", cfg, sh, <<>>)
        ELSE IF ~derived.ok THEN Result("Std", cfg, sh, <<>>)
        ELSE Result("Ok", cfg, sh,
                    <<Instantiate2Msg(ContractAddr, code_id, msg, funds, msg),
                      UpdateAdminMsg(derived.address, sender),
                      UpdateRewardMetadataMsg(derived.address, ContractAddr,
                                              ContractAddr)>>)

add_custom_contract_factory(cfg, sh, sender, code_id, msg, funds) ==
    LET creator == ContractAddr
        checksum == checksum_of(OwnCodeId)
        salt == msg
        derived == instantiate2_address(checksum, creator, salt)
    IN  IF cfg.mutable = FALSE THEN Result("ContractNotMutable", cfg, sh, <<>>)
        ELSE IF sender # cfg.admin THEN Result("Unauthorized", cfg, sh, <<>>)
        ELSE IF ~derived.ok THEN Result("Std", cfg, sh, <<>>)
        ELSE Result("Ok", cfg, sh,
                    <<Instantiate2Msg(ContractAddr, code_id, msg, funds, salt),
                      UpdateRewardMetadataMsg(derived.address, ContractAddr,
                                              ContractAddr),
                      UpdateAdminMsg(derived.address, sender)>>)

\* Mutant: a locked contract still deploys children for its admin.
execute_add_custom_contract_NoMutableCheck(v, cfg, sh, sender, code_id, msg, funds) ==
    IF v = "splitter"
    THEN add_custom_contract_splitter([cfg EXCEPT !.mutable = TRUE], sh, sender,
                                      code_id, msg, funds)
    ELSE add_custom_contract_factory([cfg EXCEPT !.mutable = TRUE], sh, sender,
                                     code_id, msg, funds)

execute_add_custom_contract(v, cfg, sh, sender, code_id, msg, funds) ==
    IF v = "splitter"
    THEN add_custom_contract_splitter(cfg, sh, sender, code_id, msg, funds)
    ELSE add_custom_contract_factory(cfg, sh, sender, code_id, msg, funds)

execute_update_custom_contract_reward_metadata(cfg, sh, sender, address, owner, rewards) ==
    IF cfg.mutable = FALSE THEN Result("ContractNotMutable", cfg, sh, <<>>)
    ELSE IF sender # cfg.admin THEN Result("Unauthorized", cfg, sh, <<>>)
    ELSE Result("Ok", cfg, sh, <<MetadataMsg(address, owner, rewards)>>)

\* Mutant: a locked contract refuses the reply.
reply_RejectLocked(cfg, sh, id, result) ==
    IF cfg.mutable = FALSE THEN Result("ContractNotMutable", cfg, sh, <<>>)
    ELSE IF id # INSTANTIATE_REPLY_ID THEN Result("InstantiateError", cfg, sh, <<>>)
    ELSE IF result.ok
    THEN Result("Ok", cfg, sh,
                <<MetadataMsg(result.contract_address, ContractAddr, ContractAddr),
                  UpdateAdminMsg(result.contract_address, cfg.admin)>>)
    ELSE Result("Std", cfg, sh, <<>>)

\* Mutant: the child keeps the deploying contract as its admin.
reply_KeepAdmin(cfg, sh, id, result) ==
    IF id # INSTANTIATE_REPLY_ID THEN Result("InstantiateError", cfg, sh, <<>>)
    ELSE IF result.ok
    THEN Result("Ok", cfg, sh,
                <<MetadataMsg(result.contract_address, ContractAddr, ContractAddr),
                  UpdateAdminMsg(result.contract_address, ContractAddr)>>)
    ELSE Result("Std", cfg, sh, <<>>)

\* Mutant: the reply handler does not look at the id.
reply_AnyId(cfg, sh, id, result) ==
    IF result.ok
    THEN Result("Ok", cfg, sh,
                <<MetadataMsg(result.contract_address, ContractAddr, ContractAddr),
                  UpdateAdminMsg(result.contract_address, cfg.admin)>>)
    ELSE Result("Std", cfg, sh, <<>>)

\* Mutant: the admin is handed over before the metadata is registered.
reply_AdminFirst(cfg, sh, id, result) ==
    IF id # INSTANTIATE_REPLY_ID THEN Result("InstantiateError", cfg, sh, <<>>)
    ELSE IF result.ok
    THEN Result("Ok", cfg, sh,
                <<UpdateAdminMsg(result.contract_address, cfg.admin),
                  MetadataMsg(result.contract_address, ContractAddr, ContractAddr)>>)
    ELSE Result("Std", cfg, sh, <<>>)

\* The reply entry point; result is the outcome parse_reply_instantiate_data
\* reads from the Reply: [ok, contract_address].
reply(cfg, sh, id, result) ==
    IF id # INSTANTIATE_REPLY_ID THEN Result("InstantiateError", cfg, sh, <<>>)
    ELSE IF result.ok
    THEN Result("Ok", cfg, sh,
                <<MetadataMsg(result.contract_address, ContractAddr, ContractAddr),
                  UpdateAdminMsg(result.contract_address, cfg.admin)>>)
    ELSE Result("Std", cfg, sh, <<>>)

\* ------------------------------------------------------ reward distributor
WithdrawRewardsMsg ==
    [kind |-> "WithdrawRewards", records_limit |-> 0, record_ids |-> <<>>]

\* Mutant: a locked contract refuses to withdraw its rewards.
execute_withdraw_rewards_RejectLocked(cfg, sh, sender) ==
    IF cfg.mutable = FALSE THEN Result("ContractNotMutable", cfg, sh, <<>>)
    ELSE IF sender # cfg.admin THEN Result("Unauthorized", cfg, sh, <<>>)
    ELSE Result("Ok", cfg, sh, <<WithdrawRewardsMsg>>)

execute_withdraw_rewards(cfg, sh, sender) ==
    IF sender # cfg.admin THEN Result("Unauthorized", cfg, sh, <<>>)
    ELSE Result("Ok", cfg, sh, <<WithdrawRewardsMsg>>)

BankSend(to_address, amount) ==
    [kind |-> "BankSend", to_address |-> to_address, amount |-> amount,
     denom |-> "aconst"]

execute_distribute_native_tokens(cfg, sh, sender, balance) ==
    LET keys == RangeAscending(DOMAIN sh)
    IN  IF sender # cfg.admin THEN Result("Unauthorized", cfg, sh, <<>>)
        ELSE Result("Ok", cfg, sh,
                    [i \in 1..Len(keys) |->
                        BankSend(sh[keys[i]].recipient,
                                 MulDecimal(balance, sh[keys[i]].percentage))])

\* ----------------------------------------------------------------- queries
\* Option<T>: None is the empty sequence, Some(x) is <<x>>.
IsNone(o) == o = <<>>

\* Mutant: the range starts at the cursor itself (an inclusive bound).
query_shares_Inclusive(sh, start_after, limit) ==
    LET lim == IF IsNone(limit) THEN DefaultLimit ELSE limit[1]
        keys == RangeAscending({k \in DOMAIN sh :
                                   IsNone(start_after) \/ k >= start_after[1]})
        n == IF lim < Len(keys) THEN lim ELSE Len(keys)
    IN  IF ~IsNone(start_after) /\ ~addr_validate(start_after[1])
        THEN [res |-> "Panic", page |-> <<>>]
        ELSE [res |-> "Ok", page |-> [i \in 1..n |-> sh[keys[i]]]]

\* query_shares: the shares whose key lies strictly after the cursor, in
\* ascending key order, cut after limit (or DefaultLimit) entries.  The
\* cursor is validated with unwrap(): an invalid one panics.
query_shares(sh, start_after, limit) ==
    LET lim == IF IsNone(limit) THEN DefaultLimit ELSE limit[1]
        keys == RangeAscending({k \in DOMAIN sh :
                                   IsNone(start_after) \/ k > start_after[1]})
        n == IF lim < Len(keys) THEN lim ELSE Len(keys)
    IN  IF ~IsNone(start_after) /\ ~addr_validate(start_after[1])
        THEN [res |-> "Panic", page |-> <<>>]
        ELSE [res |-> "Ok", page |-> [i \in 1..n |-> sh[keys[i]]]]

\* unimplemented!(): the handler panics, the host fails the request.
unimplemented(cfg, sh) == Result("Panic", cfg, sh, <<>>)

\* ------------------------------------------------------------- host ledger
\* Mutant: the host keeps the writes of a failed request.
HostCommit_KeepWrites(old, r) == r

\* The host keeps a request's writes and messages only when it returned Ok.
HostCommit(old, r) ==
    IF r.res = "Ok" THEN r
    ELSE [r EXCEPT !.config = old.config, !.shares = old.shares, !.msgs = <<>>]

Request(op, sender, args, r) ==
    [op |-> op, sender |-> sender, args |-> args, res |-> r.res, msgs |-> r.msgs]

Stored == [instantiated |-> instantiated, config |-> config, shares |-> shares]

NoConfig == [admin |-> 0, mutable |-> FALSE]

NoRequest == [op |-> "None", sender |-> 0, args |-> <<>>, res |-> "Ok", msgs |-> <<>>]

\* No request is being processed: the host starts the next one only when
\* the one before it has run to completion and its response is handed back.
Idle == last = NoRequest

\* No submessage is awaiting its reply.
NoPending == [id \in ReplyIds |-> 0]

\* The submessages among msgs that ask for a reply under id.
Dispatched(msgs, id) ==
    Cardinality({i \in 1..Len(msgs) :
                    msgs[i].kind = "Instantiate" /\ msgs[i].id = id})

\* The host's bookkeeping of replies: a committed request adds the
\* submessages it dispatched, a delivered reply settles one pending
\* dispatch of its id.
Settle(pend, op, args, msgs) ==
    [id \in ReplyIds |->
        pend[id] + Dispatched(msgs, id)
          - (IF op = "Reply" /\ args.id = id /\ pend[id] > 0 THEN 1 ELSE 0)]

Init ==
    /\ pending = NoPending
    /\ variant \in Variants
    /\ instantiated = FALSE
    /\ config = NoConfig
    /\ shares = EmptyMap
    /\ last = NoRequest
    /\ prev = [instantiated |-> FALSE, config |-> NoConfig, shares |-> EmptyMap]

\* One request against an existing instance: the handler's result r goes
\* through the host, the request and its outcome are recorded.
Handle(op, sender, args, r) ==
    LET c == HostCommit(Stored, r)
    IN  /\ config' = c.config
        /\ shares' = c.shares
        /\ last' = Request(op, sender, args, c)
        /\ prev' = Stored
        /\ pending' = Settle(pending, op, args, c.msgs)
        /\ UNCHANGED <<variant, instantiated>>

Instantiate ==
    /\ Idle
    /\ ~instantiated
    /\ \E sender \in Addrs, mutable \in BOOLEAN, L \in ShareLists :
         LET c == HostCommit(Stored,
                             instantiate(variant, config, shares, sender, mutable, L))
         IN  /\ instantiated' = (c.res = "Ok")
             /\ config' = c.config
             /\ shares' = c.shares
             /\ last' = Request("Instantiate", sender,
                                [mutable |-> mutable, shares |-> L], c)
             /\ prev' = Stored
    /\ UNCHANGED <<variant, pending>>

UpdateShares ==
    /\ Idle
    /\ instantiated
    /\ \E sender \in Addrs, L \in ShareLists :
         Handle("UpdateShares", sender, [shares |-> L],
                execute_update_shares(config, shares, sender, L))

LockContract ==
    /\ Idle
    /\ instantiated
    /\ \E sender \in Addrs :
         Handle("LockContract", sender, <<>>,
                execute_lock_contract(config, shares, sender))

AddCustomContract ==
    /\ Idle
    /\ instantiated
    /\ pending[INSTANTIATE_REPLY_ID] < MaxPending
    /\ variant \in {"splitter", "factory"}
    /\ \E sender \in Addrs, code_id \in CodeIds, msg \in Payloads, funds \in Funds :
         Handle("AddCustomContract", sender,
                [code_id |-> code_id, msg |-> msg, funds |-> funds],
                execute_add_custom_contract(variant, config, shares, sender,
                                            code_id, msg, funds))

UpdateCustomContractRewardMetadata ==
    /\ Idle
    /\ instantiated
    /\ variant = "splitter"
    /\ \E sender \in Addrs, address \in ChildAddrs,
          owner \in OptionalAddrs, rewards \in OptionalAddrs :
         Handle("UpdateCustomContractRewardMetadata", sender,
                [address |-> address, owner_address |-> owner,
                 rewards_address |-> rewards],
                execute_update_custom_contract_reward_metadata(
                    config, shares, sender, address, owner, rewards))

WithdrawRewards ==
    /\ Idle
    /\ instantiated
    /\ variant = "splitter"
    /\ \E sender \in Addrs :
         Handle("WithdrawRewards", sender, <<>>,
                execute_withdraw_rewards(config, shares, sender))

DistributeNativeTokens ==
    /\ Idle
    /\ instantiated
    /\ \E sender \in Addrs, balance \in 0..MaxBalance :
         Handle("DistributeNativeTokens", sender, [balance |-> balance],
                IF variant = "splitter"
                THEN execute_distribute_native_tokens(config, shares, sender, balance)
                ELSE unimplemented(config, shares))

DistributeRewards ==
    /\ Idle
    /\ instantiated
    /\ variant \in {"factory", "base"}
    /\ \E sender \in Addrs :
         Handle("DistributeRewards", sender, <<>>, unimplemented(config, shares))

Reply ==
    /\ Idle
    /\ instantiated
    /\ variant = "splitter"
    /\ \E id \in ReplyIds, result \in ReplyResults :
         Handle("Reply", ContractAddr, [id |-> id, result |-> result],
                reply(config, shares, id, result))

\* The host hands the response of the finished request back to its caller.
Return ==
    /\ ~Idle
    /\ last' = NoRequest
    /\ prev' = Stored
    /\ UNCHANGED <<variant, instantiated, config, shares, pending>>

Next ==
    \/ Instantiate
    \/ UpdateShares
    \/ LockContract
    \/ AddCustomContract
    \/ UpdateCustomContractRewardMetadata
    \/ WithdrawRewards
    \/ DistributeNativeTokens
    \/ DistributeRewards
    \/ Reply
    \/ Return

Spec == Init /\ [][Next]_vars

\* ------------------------------------------------ paging through the shares
\* query_shares is the same pure read in the three variants.  It is checked
\* from every share set over PageKeys recipients, more than DefaultLimit of
\* them; an UpdateShares with a list of that length commits such a set.  The
\* percentages play no part in paging: the first recipient holds 1.0 and the
\* others 0.
PageShareSets ==
    {[k \in D |-> [recipient |-> k,
                   percentage |-> IF \A x \in D : k <= x THEN DecimalOne ELSE 0]] :
        D \in (SUBSET (1..PageKeys)) \ {{}}}

\* start_after: None, a string that fails validation (0), or an address.
Cursors == {<<>>} \cup {<<c>> : c \in 0..PageKeys}

\* limit: None or Some(n)
Limits == {<<>>} \cup {<<n>> : n \in 0..MaxLimit}

InitPages ==
    /\ pending = NoPending
    /\ variant \in Variants
    /\ instantiated = TRUE
    /\ config = [admin |-> NumAddr, mutable |-> TRUE]
    /\ shares \in PageShareSets
    /\ last = NoRequest
    /\ prev = [instantiated |-> TRUE, config |-> config, shares |-> shares]

QueryShares ==
    /\ Idle
    /\ instantiated
    /\ \E start_after \in Cursors, limit \in Limits :
         LET r == query_shares(shares, start_after, limit)
         IN  last' = [op |-> "QueryShares", sender |-> 0,
                      args |-> [start_after |-> start_after, limit |-> limit],
                      res |-> r.res, msgs |-> <<>>, page |-> r.page]
    /\ prev' = Stored
    /\ UNCHANGED <<variant, instantiated, config, shares, pending>>

NextPages ==
    \/ QueryShares
    \/ Return

SpecPages == InitPages /\ [][NextPages]_vars

\* ------------------------------------------------------ property helpers
\* The share list the last request carried.
SubmittedShares == last.args.shares

AllRecipientsValid(L) == \A i \in 1..Len(L) : L[i].recipient \in Addrs

RECURSIVE StoredSum(_)
StoredSum(m) ==
    IF DOMAIN m = {} THEN 0
    ELSE LET k == CHOOSE x \in DOMAIN m : TRUE
         IN  m[k].percentage + StoredSum([x \in (DOMAIN m) \ {k} |-> m[x]])

RECURSIVE SumAmounts(_)
SumAmounts(msgs) ==
    IF Len(msgs) = 0 THEN 0 ELSE msgs[1].amount + SumAmounts(Tail(msgs))

\* The last request was op, sent to an existing instance by its admin.
ByAdmin(op) ==
    /\ last.op = op
    /\ prev.instantiated
    /\ last.sender = prev.config.admin

\* The last request was op, sent to an existing instance by someone else.
ByOther(op) ==
    /\ last.op = op
    /\ prev.instantiated
    /\ last.sender # prev.config.admin

StoreUnchanged ==
    /\ instantiated = prev.instantiated
    /\ config = prev.config
    /\ shares = prev.shares

MutatingOps ==
    {"UpdateShares", "LockContract", "AddCustomContract",
     "UpdateCustomContractRewardMetadata", "WithdrawRewards",
     "DistributeNativeTokens"}

\* Operations that check Config.mutable before the sender.
MutableGatedOps ==
    {"UpdateShares", "AddCustomContract", "UpdateCustomContractRewardMetadata"}

\* ----------------------------------------------------------------- claims

\* C1: in every reachable state the stored Share set is empty or its
\* percentages sum to exactly 1.0, also after lists that name a recipient
\* more than once.
C1_SharesSumToOne ==
    DOMAIN shares = {} \/ StoredSum(shares) = DecimalOne

\* C2 as stated: an UpdateShares by the admin of a mutable contract succeeds
\* if and only if the percentages of its list sum to exactly 1.0, and any
\* other sum is rejected with the Share set unchanged.
C2_SucceedsIffSumIsOne ==
    (ByAdmin("UpdateShares") /\ prev.config.mutable) =>
        /\ (last.res = "Ok") <=> (total_percentage(SubmittedShares) = DecimalOne)
        /\ (total_percentage(SubmittedShares) # DecimalOne) => shares = prev.shares

\* C2 amended: an UpdateShares by the admin of a mutable contract succeeds if
\* and only if the percentages of its list sum to exactly 1.0 and every
\* recipient of the list passes address validation; a rejected request
\* leaves the Share set unchanged.
C2_SucceedsIffSumIsOneAndValid ==
    (ByAdmin("UpdateShares") /\ prev.config.mutable) =>
        /\ (last.res = "Ok") <=>
              /\ total_percentage(SubmittedShares) = DecimalOne
              /\ AllRecipientsValid(SubmittedShares)
        /\ (last.res # "Ok") => shares = prev.shares

C2_Witness ==
    /\ ByAdmin("UpdateShares")
    /\ prev.config.mutable
    /\ last.res = "Ok"
    /\ shares # prev.shares

\* C3 as stated: a mutating operation invoked by a caller other than the
\* admin fails with Unauthorized and leaves Config and the Share set
\* unchanged, whether the contract is mutable or locked.
C3_NonAdminUnauthorized ==
    \A op \in MutatingOps :
        ByOther(op) => (last.res = "Unauthorized" /\ StoreUnchanged)

\* C3 amended: a mutating operation invoked by a caller other than the admin
\* fails and leaves Config and the Share set unchanged; the error is
\* Unauthorized, except that UpdateShares, AddCustomContract and
\* UpdateCustomContractRewardMetadata on a locked contract fail with
\* ContractNotMutable (they check the lock first), and DistributeNativeTokens
\* in the variants that leave it unimplemented aborts for every caller.
C3_NonAdminRejected ==
    \A op \in MutatingOps :
        ByOther(op) =>
            /\ StoreUnchanged
            /\ last.msgs = <<>>
            /\ last.res =
                 IF op \in MutableGatedOps /\ ~prev.config.mutable
                 THEN "ContractNotMutable"
                 ELSE IF op = "DistributeNativeTokens" /\ variant # "splitter"
                 THEN "Panic"
                 ELSE "Unauthorized"

C3_Witness ==
    /\ ByOther("UpdateShares")
    /\ ~prev.config.mutable
    /\ total_percentage(SubmittedShares) = DecimalOne
    /\ AllRecipientsValid(SubmittedShares)
    /\ last.res = "ContractNotMutable"

\* C4: Config.mutable only changes from true to false: a request or reply
\* that arrives when mutable is false leaves it false.
C4_MutableNeverRestored ==
    (prev.instantiated /\ ~prev.config.mutable) =>
        (instantiated /\ ~config.mutable)

C4_Witness ==
    /\ prev.instantiated
    /\ ~prev.config.mutable
    /\ last.op = "LockContract"
    /\ last.res = "Ok"

\* C5: once Config.mutable is false every UpdateShares fails with
\* ContractNotMutable and no request changes the Share set.
C5_LockedSharesFrozen ==
    (prev.instantiated /\ ~prev.config.mutable) =>
        /\ shares = prev.shares
        /\ last.op = "UpdateShares" => last.res = "ContractNotMutable"

C5_Witness ==
    /\ ByOther("UpdateShares")
    /\ ~prev.config.mutable
    /\ last.res = "ContractNotMutable"
    /\ shares = prev.shares
    /\ DOMAIN shares # {}

\* C6: after a successful UpdateShares(L) the Share set is exactly the set of
\* entries of L: every entry of L is stored under its recipient with its
\* percentage, and nothing else is stored.
C6_StoredIsSubmitted ==
    (last.op = "UpdateShares" /\ last.res = "Ok") =>
        /\ DOMAIN shares = {SubmittedShares[i].recipient : i \in 1..Len(SubmittedShares)}
        /\ \A i \in 1..Len(SubmittedShares) :
              /\ SubmittedShares[i].recipient \in DOMAIN shares
              /\ shares[SubmittedShares[i].recipient].percentage
                    = SubmittedShares[i].percentage

\* C7: a request that ends in an error leaves Config and the Share set as
\* they were and emits no effect, also when the handler failed after it had
\* written (Config in Instantiate, the cleared and partly re-inserted Share
\* set in UpdateShares).
C7_ErrorsChangeNothing ==
    (last.res # "Ok") => (StoreUnchanged /\ last.msgs = <<>>)

\* An UpdateShares that fails on its second entry, after the clear and one
\* insert, with a non-empty set stored before it.
C7_Witness ==
    /\ ByAdmin("UpdateShares")
    /\ prev.config.mutable
    /\ Len(SubmittedShares) = 2
    /\ total_percentage(SubmittedShares) = DecimalOne
    /\ SubmittedShares[1].recipient \in Addrs
    /\ SubmittedShares[2].recipient \notin Addrs
    /\ last.res # "Ok"
    /\ DOMAIN prev.shares # {}
    /\ shares = prev.shares

\* C8: an UpdateShares or Instantiate that reaches address validation (the
\* earlier checks pass) with a recipient that fails it fails with
\* InvalidRecipient.
C8_InvalidRecipientError ==
    LET reaches ==
            \/ last.op = "Instantiate"
            \/ ByAdmin("UpdateShares") /\ prev.config.mutable
    IN  (/\ last.op \in {"Instantiate", "UpdateShares"}
         /\ reaches
         /\ total_percentage(SubmittedShares) = DecimalOne
         /\ ~AllRecipientsValid(SubmittedShares))
            => last.res = "InvalidRecipient"

\* C9: LockContract by the admin of an already locked contract succeeds and
\* leaves Config (mutable = false, same admin) and the Share set as they were.
C9_RelockIsNoOp ==
    (ByAdmin("LockContract") /\ ~prev.config.mutable) =>
        /\ last.res = "Ok"
        /\ StoreUnchanged
        /\ ~config.mutable

C9_Witness ==
    /\ ByAdmin("LockContract")
    /\ ~prev.config.mutable
    /\ last.res = "Ok"
    /\ DOMAIN shares # {}

\* C10: DistributeNativeTokens by the admin (splitter, the variant that
\* implements it) succeeds and emits one transfer per stored share, in
\* ascending order of the recipient key, each of floor(B * percentage) to
\* that share's recipient, the amounts summing to at most B.
C10_DistributionByShare ==
    (ByAdmin("DistributeNativeTokens") /\ variant = "splitter") =>
        LET B == last.args.balance
            m == last.msgs
        IN  /\ last.res = "Ok"
            /\ Len(m) = Cardinality(DOMAIN shares)
            /\ \A i \in 1..Len(m) :
                  /\ m[i].kind = "BankSend"
                  /\ m[i].to_address \in DOMAIN shares
                  /\ m[i].to_address = shares[m[i].to_address].recipient
                  /\ m[i].amount * Scale <= B * shares[m[i].to_address].percentage
                  /\ B * shares[m[i].to_address].percentage < (m[i].amount + 1) * Scale
            /\ \A i \in 1..Len(m), j \in 1..Len(m) :
                  i < j => m[i].to_address < m[j].to_address
            /\ SumAmounts(m) <= B

\* Two transfers, one of them rounded down, the other of a zero or non-zero
\* share.
C10_Witness ==
    /\ ByAdmin("DistributeNativeTokens")
    /\ variant = "splitter"
    /\ Len(last.msgs) = 2
    /\ last.msgs[1].amount * Scale < last.args.balance * shares[last.msgs[1].to_address].percentage
    /\ SumAmounts(last.msgs) < last.args.balance

\* The n-th smallest key of the stored Share set.
NthKey(n) ==
    CHOOSE k \in DOMAIN shares :
        Cardinality({x \in DOMAIN shares : x < k}) = n - 1

\* C11: with at least 4 shares stored, Query Shares with no cursor and limit
\* 2 returns the two shares with the smallest keys, and Query Shares with
\* the last address of that page as cursor and limit 2 returns the third and
\* the fourth: no overlap, no gap.  A page never holds more entries than the
\* supplied limit, or DefaultLimit when none is supplied.
C11_Pagination ==
    (last.op = "QueryShares"
        /\ (IsNone(last.args.start_after) \/ last.args.start_after[1] > 0)) =>
        /\ last.res = "Ok"
        /\ Len(last.page) <=
              (IF IsNone(last.args.limit) THEN DefaultLimit ELSE last.args.limit[1])
        /\ (Cardinality(DOMAIN shares) >= 4 /\ last.args.limit = <<2>>) =>
              /\ IsNone(last.args.start_after) =>
                    last.page = <<shares[NthKey(1)], shares[NthKey(2)]>>
              /\ last.args.start_after = <<NthKey(2)>> =>
                    last.page = <<shares[NthKey(3)], shares[NthKey(4)]>>

\* The second page of a set of at least 4 shares.
C11_Witness ==
    /\ last.op = "QueryShares"
    /\ Cardinality(DOMAIN shares) >= 4
    /\ last.args.limit = <<2>>
    /\ last.args.start_after = <<NthKey(2)>>
    /\ last.res = "Ok"
    /\ Len(last.page) = 2
    /\ last.page[1].recipient > NthKey(2)

\* C12: in the reply-tracked variant a reply whose id is not
\* INSTANTIATE_REPLY_ID fails with InstantiateError, emits no message and
\* leaves the store as it was, whether its payload is a success or a failure.
C12_UnexpectedReplyRejected ==
    (last.op = "Reply" /\ last.args.id # INSTANTIATE_REPLY_ID) =>
        /\ last.res = "InstantiateError"
        /\ last.msgs = <<>>
        /\ StoreUnchanged

\* A reply with an unexpected id that carries a success payload.
C12_Witness ==
    /\ last.op = "Reply"
    /\ last.args.id # INSTANTIATE_REPLY_ID
    /\ last.args.result.ok
    /\ last.res = "InstantiateError"

\* C13: a reply with the expected id and a success payload emits exactly two
\* messages for the child address, in this order: the metadata update with
\* owner and rewards = the deploying contract, then the admin transfer to the
\* Config.admin stored when the reply is handled.  A failure payload emits
\* nothing and fails with the generic wrapped error.
C13_ReplyWiresChild ==
    (last.op = "Reply" /\ last.args.id = INSTANTIATE_REPLY_ID) =>
        IF last.args.result.ok
        THEN /\ last.res = "Ok"
             /\ Len(last.msgs) = 2
             /\ last.msgs[1] = [kind |-> "UpdateContractMetadata",
                                contract |-> last.args.result.contract_address,
                                owner |-> ContractAddr, rewards |-> ContractAddr]
             /\ last.msgs[2] = [kind |-> "UpdateAdmin",
                                contract_addr |-> last.args.result.contract_address,
                                admin |-> prev.config.admin]
        ELSE /\ last.res = "Std"
             /\ last.msgs = <<>>

\* A successful reply in a contract whose admin is not the first address and
\* which has been locked since the dispatch.
C13_Witness ==
    /\ last.op = "Reply"
    /\ last.args.id = INSTANTIATE_REPLY_ID
    /\ last.args.result.ok
    /\ last.res = "Ok"
    /\ Len(last.msgs) = 2
    /\ prev.config.admin = NumAddr
    /\ ~prev.config.mutable

\* The addresses instantiate2_address can derive for creator and salt.
DerivableAddrs(creator, salt) ==
    {instantiate2_address(checksum_of(c), creator, salt).address : c \in CodeIds}

\* C14: in the deterministic-address variant a successful AddCustomContract
\* emits exactly three messages, in this order: Instantiate2 with admin = the
\* deploying contract and salt = the init payload, the metadata update sent
\* to the derived child address, and the admin transfer for that same address
\* naming the caller.  When the address cannot be derived the request fails
\* and emits nothing.
C14_ThreeEffectsInOrder ==
    (last.op = "AddCustomContract" /\ variant = "factory") =>
        /\ last.res = "Ok" =>
              /\ Len(last.msgs) = 3
              /\ last.msgs[1].kind = "Instantiate2"
              /\ last.msgs[1].admin = ContractAddr
              /\ last.msgs[1].code_id = last.args.code_id
              /\ last.msgs[1].msg = last.args.msg
              /\ last.msgs[1].salt = last.args.msg
              /\ last.msgs[2].kind = "Execute"
              /\ last.msgs[2].contract_addr \in DerivableAddrs(ContractAddr, last.args.msg)
              /\ last.msgs[2].msg = [owner_address |-> ContractAddr,
                                     rewards_address |-> ContractAddr]
              /\ last.msgs[3].kind = "UpdateAdmin"
              /\ last.msgs[3].contract_addr = last.msgs[2].contract_addr
              /\ last.msgs[3].admin = last.sender
        /\ ~instantiate2_address(checksum_of(OwnCodeId), ContractAddr, last.args.msg).ok =>
              /\ last.res # "Ok"
              /\ last.msgs = <<>>
              /\ StoreUnchanged

\* The admin of an unlocked contract deploys a child with a usable salt.
C14_Witness ==
    /\ last.op = "AddCustomContract"
    /\ variant = "factory"
    /\ last.res = "Ok"
    /\ Len(last.msgs) = 3
    /\ last.args.msg # 0

\* A message that instantiates a child.
IsInstantiate(m) == m.kind \in {"Instantiate", "Instantiate2"}

\* C15: in both deployment variants a request emits an instantiate message
\* only if it is an AddCustomContract sent by Config.admin while
\* Config.mutable is true; so once the contract is immutable no request
\* dispatches a child instantiation.
C15_DeployGated ==
    (\E i \in 1..Len(last.msgs) : IsInstantiate(last.msgs[i])) =>
        /\ last.op = "AddCustomContract"
        /\ last.sender = prev.config.admin
        /\ prev.config.mutable = TRUE

\* The admin of a locked contract asks for a child and gets none.
C15_Witness ==
    /\ ByAdmin("AddCustomContract")
    /\ ~prev.config.mutable
    /\ last.res = "ContractNotMutable"
    /\ last.msgs = <<>>

\* C16: in the reply-tracked variant, whatever the sequence of
\* AddCustomContract dispatches and reply deliveries, no reply id has two
\* instantiations pending (dispatched and not yet replied to) at once.
C16_OnePendingPerId ==
    \A id \in ReplyIds : pending[id] <= 1

\* C17: in every variant a successful Instantiate stores Config with admin =
\* the caller and mutable = the supplied flag, stores the supplied shares,
\* and emits a metadata registration naming the caller as owner and as
\* rewards recipient.
C17_InstantiateRegistersMetadata ==
    (last.op = "Instantiate" /\ last.res = "Ok") =>
        /\ config = [admin |-> last.sender, mutable |-> last.args.mutable]
        /\ DOMAIN shares = {SubmittedShares[i].recipient : i \in 1..Len(SubmittedShares)}
        /\ \E i \in 1..Len(last.msgs) :
              /\ last.msgs[i].kind = "UpdateContractMetadata"
              /\ last.msgs[i].owner = last.sender
              /\ last.msgs[i].rewards = last.sender

\* C18: the sum check fails with PercentageLimitExceeded exactly when the
\* submitted percentages sum to more than 1.0 and with PercentageLimitNotMet
\* exactly when they sum to less; a list with no share is rejected with
\* PercentageLimitNotMet by Instantiate and by UpdateShares (a request that
\* reaches the sum check: any Instantiate, an UpdateShares by the admin of a
\* mutable contract).
C18_SumCheck ==
    /\ last.res \in {"PercentageLimitExceeded", "PercentageLimitNotMet"} =>
          last.op \in {"Instantiate", "UpdateShares"}
    /\ (\/ last.op = "Instantiate"
        \/ ByAdmin("UpdateShares") /\ prev.config.mutable) =>
          /\ last.res = "PercentageLimitExceeded" <=>
                total_percentage(SubmittedShares) > DecimalOne
          /\ last.res = "PercentageLimitNotMet" <=>
                total_percentage(SubmittedShares) < DecimalOne
          /\ SubmittedShares = <<>> => last.res = "PercentageLimitNotMet"

\* The admin of a mutable contract submits a list with no share.
C18_Witness ==
    /\ ByAdmin("UpdateShares")
    /\ prev.config.mutable
    /\ SubmittedShares = <<>>
    /\ last.res = "PercentageLimitNotMet"
    /\ StoreUnchanged

\* C19: in the deterministic-address variant, whatever code the child runs,
\* the metadata update and the admin transfer are addressed to the address
\* at which the host creates the child of the emitted Instantiate2 message.
C19_PredictedIsCreated ==
    (last.op = "AddCustomContract" /\ variant = "factory" /\ last.res = "Ok") =>
        /\ last.msgs[2].contract_addr = HostChildAddress(ContractAddr, last.msgs[1])
        /\ last.msgs[3].contract_addr = HostChildAddress(ContractAddr, last.msgs[1])

\* C20: Config.admin is the caller of the successful Instantiate in every
\* state after it: Instantiate stores its caller, no later request or reply
\* stores another admin, and every admin transfer emitted for a child names
\* Config.admin.
C20_AdminIsInstantiator ==
    /\ (last.op = "Instantiate" /\ last.res = "Ok") => config.admin = last.sender
    /\ prev.instantiated => config.admin = prev.config.admin
    /\ instantiated => config.admin \in Addrs
    /\ \A i \in 1..Len(last.msgs) :
          last.msgs[i].kind = "UpdateAdmin" => last.msgs[i].admin = config.admin

\* A reply hands a child to an admin who has locked the contract meanwhile.
C20_Witness ==
    /\ last.op = "Reply"
    /\ last.res = "Ok"
    /\ \E i \in 1..Len(last.msgs) :
          last.msgs[i].kind = "UpdateAdmin" /\ last.msgs[i].admin = config.admin
    /\ config.admin = prev.config.admin
    /\ ~config.mutable

\* C21: in the reply-tracked variant a success reply with the expected id
\* that is delivered to a locked contract (LockContract was processed after
\* the dispatch, which needs a mutable contract) still emits the metadata
\* update and the admin transfer; the reply handler does not look at
\* Config.mutable, and no reply changes Config or the Share set.
C21_ReplyAfterLock ==
    /\ last.op = "Reply" => StoreUnchanged
    /\ (/\ last.op = "Reply"
        /\ last.args.id = INSTANTIATE_REPLY_ID
        /\ last.args.result.ok
        /\ ~prev.config.mutable) =>
          /\ last.res = "Ok"
          /\ Len(last.msgs) = 2
          /\ last.msgs[1].kind = "UpdateContractMetadata"
          /\ last.msgs[1].contract = last.args.result.contract_address
          /\ last.msgs[2].kind = "UpdateAdmin"
          /\ last.msgs[2].contract_addr = last.args.result.contract_address
          /\ config.mutable = FALSE

\* Instantiations were dispatched, the contract was locked, and the success
\* reply to one of them is delivered while another still awaits its own.
C21_Witness ==
    /\ last.op = "Reply"
    /\ last.args.id = INSTANTIATE_REPLY_ID
    /\ last.args.result.ok
    /\ ~prev.config.mutable
    /\ pending[INSTANTIATE_REPLY_ID] > 0
    /\ last.res = "Ok"
    /\ Len(last.msgs) = 2

\* C22: in the variant that implements them, WithdrawRewards and
\* DistributeNativeTokens sent by the admin succeed whether Config.mutable
\* is true or false and leave Config and the Share set unchanged;
\* WithdrawRewards emits exactly one reward-withdrawal message and no
\* transfer.
C22_RewardOpsIgnoreLock ==
    /\ (variant = "splitter"
          /\ (ByAdmin("WithdrawRewards") \/ ByAdmin("DistributeNativeTokens"))) =>
          /\ last.res = "Ok"
          /\ StoreUnchanged
    /\ ByAdmin("WithdrawRewards") =>
          /\ Len(last.msgs) = 1
          /\ last.msgs[1].kind = "WithdrawRewards"
          /\ \A i \in 1..Len(last.msgs) : last.msgs[i].kind # "BankSend"

\* The admin of a locked contract withdraws the rewards.
C22_Witness ==
    /\ ByAdmin("WithdrawRewards")
    /\ ~prev.config.mutable
    /\ last.res = "Ok"
    /\ Len(last.msgs) = 1
    /\ StoreUnchanged

====
